---------------------------- MODULE Spec2Model ----------------------------
(***************************************************************************)
(* Model of cell_row_span.py: the block processor that records the raw     *)
(* source of every table block, and the tree processor that walks each     *)
(* table of the finished tree together with its recorded source and sets   *)
(* colspan / rowspan attributes and removes merged cells.                  *)
(*                                                                         *)
(* Python strings are sequences of one-character strings, so that the      *)
(* regular expressions, split() and str()/int() are computed, not assumed. *)
(* Row and cell indices are 0-based as in the code; a TLA+ sequence is     *)
(* read at index + 1.                                                      *)
(***************************************************************************)
EXTENDS Integers, Sequences, FiniteSets, TLC

\* ------------------------------------------------------------- bounds

\* Most body rows of a table of the single-document specification.
MaxRows == 3
\* Most tables of a document of the several-documents specification.
MaxTables == 2
\* Most documents one process converts in the several-documents specification.
MaxRuns == 2

\* ------------------------------------------------------ string helpers

NL == "\n"

RECURSIVE SplitAcc(_, _, _, _)
SplitAcc(s, sep, cur, acc) ==
    IF s = <<>> THEN Append(acc, cur)
    ELSE IF Head(s) = sep
         THEN SplitAcc(Tail(s), sep, <<>>, Append(acc, cur))
         ELSE SplitAcc(Tail(s), sep, Append(cur, Head(s)), acc)

\* str.split(sep): k separators give k+1 pieces, empty pieces kept.
Split(s, sep) == SplitAcc(s, sep, <<>>, <<>>)

RECURSIVE Join(_, _)
\* sep.join(parts)
Join(parts, sep) ==
    IF parts = <<>> THEN <<>>
    ELSE IF Len(parts) = 1 THEN Head(parts)
         ELSE Head(parts) \o <<sep>> \o Join(Tail(parts), sep)

Digits == <<"0", "1", "2", "3", "4", "5", "6", "7", "8", "9">>

RECURSIVE IntToStr(_)
\* str(n) of a natural number
IntToStr(n) ==
    IF n < 10 THEN <<Digits[n + 1]>>
    ELSE IntToStr(n \div 10) \o <<Digits[(n % 10) + 1]>>

DigitVal(ch) == (CHOOSE i \in 1..10 : Digits[i] = ch) - 1

RECURSIVE StrToInt(_)
\* int(s) of a string of decimal digits
StrToInt(s) ==
    IF Len(s) = 1 THEN DigitVal(s[1])
    ELSE StrToInt(SubSeq(s, 1, Len(s) - 1)) * 10 + DigitVal(s[Len(s)])

\* \s of the regular expressions, over the characters the tables hold
IsSpace(ch) == ch \in {" ", "\t", "\n"}

\* ------------------------------------------------- regular expressions

\* RE_adjacent_bars.search(s): r'\|(~~)?\|' anywhere in s
RE_adjacent_bars_search(s) ==
    \E i \in 1..Len(s) :
        /\ s[i] = "|"
        /\ \/ (i + 1 <= Len(s) /\ s[i + 1] = "|")
           \/ (i + 3 <= Len(s) /\ s[i + 1] = "~" /\ s[i + 2] = "~" /\ s[i + 3] = "|")

RECURSIVE LStripSpaces(_)
LStripSpaces(s) ==
    IF s # <<>> /\ Head(s) = " " THEN LStripSpaces(Tail(s)) ELSE s

\* RE_remove_lead_pipe.sub('', text): r'^ *\|' removed when the text starts with it
RE_remove_lead_pipe_sub(text) ==
    LET rest == LStripSpaces(text)
    IN  IF rest # <<>> /\ Head(rest) = "|" THEN Tail(rest) ELSE text

\* RE_row_span_marker.match(t): r'^_[_^= ]*_$'
RE_row_span_marker_match(t) ==
    /\ Len(t) >= 2
    /\ t[1] = "_"
    /\ t[Len(t)] = "_"
    /\ \A i \in 2..(Len(t) - 1) : t[i] \in {"_", "^", "=", " "}

\* RE_valign_top.search(t): r'\^'
RE_valign_top_search(t) == \E i \in 1..Len(t) : t[i] = "^"

\* RE_valign_bottom.search(t): r'='
RE_valign_bottom_search(t) == \E i \in 1..Len(t) : t[i] = "="

\* RE_empty_cell.match(t): r'\s*(~~)?\s*$'
RE_empty_cell_match(t) ==
    \E i \in 0..Len(t) :
        /\ \A k \in 1..i : IsSpace(t[k])
        /\ \/ \A k \in (i + 1)..Len(t) : IsSpace(t[k])
           \/ /\ i + 2 <= Len(t)
              /\ t[i + 1] = "~"
              /\ t[i + 2] = "~"
              /\ \A k \in (i + 3)..Len(t) : IsSpace(t[k])


\* ------------------------------------------------------------- inputs

\* The two lines every table block starts with: the header row and the
\* delimiter row of a two-column table.
HeaderLine == <<"|", "h", "|", "k", "|">>
DelimiterLine == <<"|", "-", "|", "-", "|">>

\* Cells per body row of the tree: the table stage builds one per header column.
NumCols == Len(Split(RE_remove_lead_pipe_sub(HeaderLine), "|")) - 1

\* Body rows as written, each with the cell texts the table stage puts in the
\* tree for it (split at '|', stripped, cut or padded to the header's columns).
PlainRow      == [raw   |-> <<"|", " ", "a", " ", "|", " ", "b", " ", "|">>,
                  cells |-> << <<"a">>, <<"b">> >>]
AdjacentRow   == [raw   |-> <<"|", " ", "a", " ", "|", "|">>,
                  cells |-> << <<"a">>, <<>> >>]
SentinelRow   == [raw   |-> <<"|", " ", "a", " ", "|", "~", "~", "|">>,
                  cells |-> << <<"a">>, <<"~", "~">> >>]
BlankRow      == [raw   |-> <<"|", " ", "a", " ", "|", " ", " ", "|">>,
                  cells |-> << <<"a">>, <<>> >>]
MiddleRow     == [raw   |-> <<"|", " ", "a", " ", "|", "_", "_", "_", "|">>,
                  cells |-> << <<"a">>, <<"_", "_", "_">> >>]
TopRow        == [raw   |-> <<"|", " ", "a", " ", "|", "_", "^", " ", "_", "|">>,
                  cells |-> << <<"a">>, <<"_", "^", " ", "_">> >>]
BottomRow     == [raw   |-> <<"|", " ", "a", " ", "|", "_", "=", "_", "|">>,
                  cells |-> << <<"a">>, <<"_", "=", "_">> >>]
BothRow       == [raw   |-> <<"|", " ", "a", " ", "|", "_", "^", "=", "_", "|">>,
                  cells |-> << <<"a">>, <<"_", "^", "=", "_">> >>]
MarkerFirstRow == [raw   |-> <<"|", "_", "_", "|", " ", "b", " ", "|">>,
                   cells |-> << <<"_", "_">>, <<"b">> >>]
BlankFirstRow  == [raw   |-> <<"|", " ", " ", "|", " ", "b", " ", "|">>,
                   cells |-> << <<>>, <<"b">> >>]
\* One cell too many and a merge after it: the tree keeps the first two cells.
OverlongRow   == [raw   |-> <<"|", "a", "|", "b", "|", "c", "|", "|">>,
                  cells |-> << <<"a">>, <<"b">> >>]

SampleRows == {PlainRow, AdjacentRow, SentinelRow, BlankRow, MiddleRow,
               TopRow, BottomRow, BothRow, MarkerFirstRow, BlankFirstRow,
               OverlongRow}

\* The raw block of a table: its lines joined by newlines, as the block
\* parser hands it to the block processors.
BlockOf(body) ==
    Join(<<HeaderLine, DelimiterLine>> \o [i \in 1..Len(body) |-> body[i].raw], NL)

\* A table of a document: its raw block and its body rows' cell texts.
TableOf(body) ==
    [block |-> BlockOf(body), grid |-> [i \in 1..Len(body) |-> body[i].cells]]

BodiesOfLen(n) == [1..n -> SampleRows]

SampleTables == {TableOf(b) : b \in UNION {BodiesOfLen(n) : n \in 1..MaxRows}}

\* The documents of the single-document specification: one table each.
Documents == {<<t>> : t \in SampleTables}

\* The tables of the several-documents specification: one body row each.
SmallTables == {TableOf(<<r>>) : r \in {PlainRow, AdjacentRow, MiddleRow}}

SmallDocuments == UNION {[1..n -> SmallTables] : n \in 1..MaxTables}

\* ---------------------------------------------------------------- tree

\* A cell is named by its place in the tree the table stage built: <<row, column>>,
\* 0-based.  An Element's attributes are a function from the keys set on it.
NoAttrib == [k \in {} |-> <<>>]

SetAttr(a, k, v) == [x \in (DOMAIN a) \cup {k} |-> IF x = k THEN v ELSE a[x]]

CellIds(grid) == {<<r, c>> : r \in 0..(Len(grid) - 1), c \in 0..(NumCols - 1)}

\* The <table> element as the table stage leaves it: a tbody of rows of cells,
\* every cell with its text and no attribute.
BuildTree(tbl) ==
    [tbody  |-> [r \in 1..Len(tbl.grid) |-> [c \in 1..NumCols |-> <<r - 1, c - 1>>]],
     text   |-> [id \in CellIds(tbl.grid) |-> tbl.grid[id[1] + 1][id[2] + 1]],
     attrib |-> [id \in CellIds(tbl.grid) |-> NoAttrib]]

\* td in tr
InRow(tr, td) == \E i \in 1..Len(tr) : tr[i] = td

\* tr.remove(td): the first occurrence goes
RemoveFromRow(tr, td) ==
    LET i == CHOOSE k \in 1..Len(tr) : tr[k] = td /\ \A j \in 1..(k - 1) : tr[j] # td
    IN  SubSeq(tr, 1, i - 1) \o SubSeq(tr, i + 1, Len(tr))

\* What a failed pass raised.  An IndexError of the column merge names the
\* table and the row and dumps the row's cells; a ValueError names table, row
\* and column.
NoErr == [kind |-> "none", table |-> 0, row |-> 0, col |-> 0, cells |-> <<>>]

\* x if x else 'Empty', of the IndexError's row dump
DumpText(x) == IF x = <<>> THEN <<"E", "m", "p", "t", "y">> ELSE x

\* ----------------------------------------------- _update_colspan_attrib

\* A detection state: the table's tree, the list of (row, cell) pairs to
\* remove, and the exception raised, if any.

RECURSIVE ColspanLoop(_, _, _, _, _, _, _)
\* The loop over text.split('|'): cs are the pieces left, td_index the current
\* piece's index, last the index of the last piece that was not empty.
ColspanLoop(cs, td_index, last, t_index, tr_index, tr, st) ==
    IF cs = <<>> \/ st.err.kind # "none" THEN st
    ELSE LET c == Head(cs)
         IN  IF Len(c) = 0 \/ c = <<"~", "~">>
             THEN IF last >= Len(tr)
                  THEN [st EXCEPT !.err =
                           [kind  |-> "IndexError",
                            table |-> t_index,
                            row   |-> tr_index + 1,
                            col   |-> 0,
                            cells |-> [i \in 1..Len(tr) |-> DumpText(st.tree.text[tr[i]])]]]
                  ELSE LET td == tr[last + 1]
                           a == st.tree.attrib[td]
                           span == IF "colspan" \in DOMAIN a
                                   THEN StrToInt(a["colspan"]) ELSE 1
                           st2 == IF td_index < Len(tr)
                                  THEN [st EXCEPT
                                          !.tree.attrib[td] =
                                              SetAttr(a, "colspan", IntToStr(span + 1)),
                                          !.td_remove =
                                              Append(@, <<tr_index, tr[td_index + 1]>>)]
                                  ELSE st
                       IN  ColspanLoop(Tail(cs), td_index + 1, last,
                                       t_index, tr_index, tr, st2)
             ELSE ColspanLoop(Tail(cs), td_index + 1, td_index,
                              t_index, tr_index, tr, st)

\* Update 'colspan' attributes in 'td' entries of row tr_index from its raw line.
UpdateColspanAttrib(text, t_index, tr_index, st) ==
    ColspanLoop(Split(RE_remove_lead_pipe_sub(text), "|"), 0, 0,
                t_index, tr_index, st.tree.tbody[tr_index + 1], st)

\* ----------------------------------------------- _update_rowspan_attrib

\* The attributes __init__ sets on the tree processor.
TreeProcessorAttrs == {"table_blocks"}

\* tbody[row_num][td_index] is there
HasCell(tree, row_num, td_index) ==
    /\ row_num + 1 \in 1..Len(tree.tbody)
    /\ td_index + 1 \in 1..Len(tree.tbody[row_num + 1])

LookupError ==
    [kind |-> "IndexError", table |-> 0, row |-> 0, col |-> 0, cells |-> <<>>]

RECURSIVE ScanUp(_, _, _, _, _)
\* The loop over reversed(range(tr_index + 1)): queues the marker's cell and
\* the empty cells above it, and gives the value row_num is left with: the
\* row of the break, or 0, the last value of the range, when nothing broke it.
ScanUp(tree, tr_index, td_index, row_num, td_remove) ==
    IF ~HasCell(tree, row_num, td_index)
    THEN [row_num |-> row_num, td_remove |-> td_remove, err |-> LookupError]
    ELSE LET td == tree.tbody[row_num + 1][td_index + 1]
         IN  IF row_num = tr_index \/ RE_empty_cell_match(tree.text[td])
             THEN LET q == Append(td_remove, <<row_num, td>>)
                  IN  IF row_num = 0
                      THEN [row_num |-> 0, td_remove |-> q, err |-> NoErr]
                      ELSE ScanUp(tree, tr_index, td_index, row_num - 1, q)
             ELSE [row_num |-> row_num, td_remove |-> td_remove, err |-> NoErr]

\* The vertical alignment the marker asks for; "invalid" is where the code raises.
VAlign(marker) ==
    LET top    == RE_valign_top_search(marker)
        bottom == RE_valign_bottom_search(marker)
    IN  IF top /\ bottom THEN "invalid"
        ELSE IF bottom THEN "bottom"
        ELSE IF top THEN "top"
        ELSE "middle"

\* _update_rowspan_attrib as it would be if it removed the marker's cell from its
\* row at once instead of queueing it only.
UpdateRowspanAttrib_RemoveAtOnce(t_index, tr_index, td_index, st) ==
    LET tree    == st.tree
        cell    == tree.tbody[tr_index + 1][td_index + 1]
        v_align == VAlign(tree.text[cell])
    IN  IF v_align = "invalid"
        THEN [st EXCEPT !.err = [kind |-> "AttributeError", table |-> 0,
                                 row |-> 0, col |-> 0, cells |-> <<>>]]
        ELSE LET scan == ScanUp(tree, tr_index, td_index, tr_index, st.td_remove)
             IN  IF scan.err.kind # "none"
                 THEN [st EXCEPT !.err = scan.err]
                 ELSE LET td == tree.tbody[scan.row_num + 1][td_index + 1]
                      IN  [st EXCEPT
                             !.td_remove = scan.td_remove,
                             !.tree.attrib[td] =
                                 SetAttr(@, "rowspan",
                                         IntToStr(tr_index - scan.row_num + 1)),
                             !.tree.tbody[tr_index + 1] = RemoveFromRow(@, cell)]

\* Update 'rowspan' attributes in 'td' entries for the marker at (tr_index, td_index).
\* v_align is computed and then stored on no cell.
UpdateRowspanAttrib(t_index, tr_index, td_index, st) ==
    LET tree    == st.tree
        marker  == tree.text[tree.tbody[tr_index + 1][td_index + 1]]
        v_align == VAlign(marker)
    IN  IF v_align = "invalid"
        THEN \* the message reads self.table_count before ValueError is built
             IF "table_count" \in TreeProcessorAttrs
             THEN [st EXCEPT !.err = [kind |-> "ValueError", table |-> t_index,
                                      row |-> tr_index + 1, col |-> td_index + 1,
                                      cells |-> <<>>]]
             ELSE [st EXCEPT !.err = [kind |-> "AttributeError", table |-> 0,
                                      row |-> 0, col |-> 0, cells |-> <<>>]]
        ELSE LET scan == ScanUp(tree, tr_index, td_index, tr_index, st.td_remove)
             IN  IF scan.err.kind # "none"
                 THEN [st EXCEPT !.err = scan.err]
                 ELSE LET td == tree.tbody[scan.row_num + 1][td_index + 1]
                      IN  [st EXCEPT
                             !.td_remove = scan.td_remove,
                             !.tree.attrib[td] =
                                 SetAttr(@, "rowspan",
                                         IntToStr(tr_index - scan.row_num + 1))]

\* -------------------------------------------------------------- run

\* An int compared with a str: never equal.
PyEqIntStr(n, s) == FALSE

\* n in rows, rows a list of str
IntInRows(n, rows) == \E i \in 1..Len(rows) : PyEqIntStr(n, rows[i])

\* "Check for adjacent columns" of run's row loop.
CheckAdjacent(rows, t_index, tr_index, st) ==
    IF IntInRows(tr_index + 2, rows) /\ RE_adjacent_bars_search(rows[tr_index + 3])
    THEN UpdateColspanAttrib(rows[tr_index + 3], t_index, tr_index, st)
    ELSE st

RECURSIVE RowCells_NoMarkerTest(_, _, _, _)
\* run's loop over the row's cells as it would be without the marker test.
RowCells_NoMarkerTest(t_index, tr_index, td_index, st) ==
    IF st.err.kind # "none" \/ td_index >= Len(st.tree.tbody[tr_index + 1]) THEN st
    ELSE RowCells_NoMarkerTest(t_index, tr_index, td_index + 1,
                               UpdateRowspanAttrib(t_index, tr_index, td_index, st))

RECURSIVE RowCells(_, _, _, _)
\* "Check for spanned rows" of run's row loop: for td in tr, from td_index on.
RowCells(t_index, tr_index, td_index, st) ==
    IF st.err.kind # "none" \/ td_index >= Len(st.tree.tbody[tr_index + 1]) THEN st
    ELSE LET td == st.tree.tbody[tr_index + 1][td_index + 1]
         IN  IF RE_row_span_marker_match(st.tree.text[td])
             THEN RowCells(t_index, tr_index, td_index + 1,
                           UpdateRowspanAttrib(t_index, tr_index, td_index, st))
             ELSE RowCells(t_index, tr_index, td_index + 1, st)

RECURSIVE RemoveCells(_, _)
\* "Remove unneeded td elements": for tr, td in td_remove: if td in tr: tr.remove(td)
RemoveCells(tbody, td_remove) ==
    IF td_remove = <<>> THEN tbody
    ELSE LET r  == Head(td_remove)[1] + 1
             td == Head(td_remove)[2]
         IN  RemoveCells(IF InRow(tbody[r], td)
                         THEN [tbody EXCEPT ![r] = RemoveFromRow(@, td)]
                         ELSE tbody,
                         Tail(td_remove))

\* --------------------------------------------------------------- state

VARIABLES
    doc,          \* the document being converted: its tables, in order
    run_no,       \* how many documents this process has started
    table_blocks, \* CellRowSpanExtension.table_blocks, shared by both processors
    root,         \* the tables of the document's tree, in document order
    pc,           \* "parse", "tables", "detect", "done" or "failed"
    t_index,      \* run's t_index
    rows,         \* run's rows: the lines of the block taken for the current table
    tr_index,     \* run's tr_index
    td_remove,    \* run's td_remove
    err           \* the exception that ended the pass

vars == <<doc, run_no, table_blocks, root, pc, t_index, rows, tr_index, td_remove, err>>

Fresh(d) ==
    /\ doc = d
    /\ run_no = 1
    /\ table_blocks = <<>>
    /\ root = <<>>
    /\ pc = "parse"
    /\ t_index = 0
    /\ rows = <<>>
    /\ tr_index = 0
    /\ td_remove = <<>>
    /\ err = NoErr

\* A new process about to convert one document.
Init == \E d \in Documents : Fresh(d)

\* A new process about to convert the first of several documents.
InitRuns == \E d \in SmallDocuments : Fresh(d)

\* The block parser meets the next table block: CellRowSpanBlockProcessor.run
\* appends its source and declines it, and the table stage builds its tree.
BlockRun ==
    /\ pc = "parse"
    /\ Len(root) < Len(doc)
    /\ table_blocks' = Append(table_blocks, doc[Len(root) + 1].block)
    /\ root' = Append(root, BuildTree(doc[Len(root) + 1]))
    /\ UNCHANGED <<doc, run_no, pc, t_index, rows, tr_index, td_remove, err>>

\* CellRowSpanTreeProcessor.run is entered once the tree is whole.
TreeRunStart ==
    /\ pc = "parse"
    /\ Len(root) = Len(doc)
    /\ t_index' = 0
    /\ pc' = "tables"
    /\ UNCHANGED <<doc, run_no, table_blocks, root, rows, tr_index, td_remove, err>>

\* The head of run's loop over the tables: the block at t_index is taken and split.
TableStart ==
    /\ pc = "tables"
    /\ t_index < Len(root)
    /\ rows' = Split(table_blocks[t_index + 1], NL)
    /\ t_index' = t_index + 1
    /\ td_remove' = <<>>
    /\ tr_index' = 0
    /\ pc' = "detect"
    /\ UNCHANGED <<doc, run_no, table_blocks, root, err>>

\* One turn of "for tr in tbody": the column check, then the row's cells.
RowStep ==
    /\ pc = "detect"
    /\ tr_index < Len(root[t_index].tbody)
    /\ LET st0 == [tree |-> root[t_index], td_remove |-> td_remove, err |-> NoErr]
           st1 == CheckAdjacent(rows, t_index, tr_index, st0)
           st2 == RowCells(t_index, tr_index, 0, st1)
       IN  /\ root' = [root EXCEPT ![t_index] = st2.tree]
           /\ td_remove' = st2.td_remove
           /\ err' = st2.err
           /\ IF st2.err.kind = "none"
              THEN /\ tr_index' = tr_index + 1
                   /\ pc' = "detect"
              ELSE /\ tr_index' = tr_index
                   /\ pc' = "failed"
    /\ UNCHANGED <<doc, run_no, table_blocks, t_index, rows>>

\* After the last row: the queued cells are removed from their rows.
RemovePass ==
    /\ pc = "detect"
    /\ tr_index = Len(root[t_index].tbody)
    /\ root' = [root EXCEPT ![t_index].tbody = RemoveCells(@, td_remove)]
    /\ pc' = "tables"
    /\ UNCHANGED <<doc, run_no, table_blocks, t_index, rows, tr_index, td_remove, err>>

\* run returns after the last table.
TreeRunEnd ==
    /\ pc = "tables"
    /\ t_index = Len(root)
    /\ pc' = "done"
    /\ UNCHANGED <<doc, run_no, table_blocks, root, t_index, rows, tr_index, td_remove, err>>

\* The same process converts another document: a new tree, and the extension's
\* class-level list as the last conversion left it.
NewDocument ==
    /\ pc \in {"done", "failed"}
    /\ run_no < MaxRuns
    /\ \E d \in SmallDocuments : doc' = d
    /\ run_no' = run_no + 1
    /\ root' = <<>>
    /\ pc' = "parse"
    /\ err' = NoErr
    /\ UNCHANGED <<table_blocks, t_index, rows, tr_index, td_remove>>

Next ==
    \/ BlockRun
    \/ TreeRunStart
    \/ TableStart
    \/ RowStep
    \/ RemovePass
    \/ TreeRunEnd

NextRuns ==
    \/ Next
    \/ NewDocument

\* One document converted by a new process.
Spec == Init /\ [][Next]_vars

\* Several documents converted one after another by one process.
SpecRuns == InitRuns /\ [][NextRuns]_vars

\* ------------------------------------------------- reading the result

\* In what follows t is a table's place in the document (1-based), r and c
\* a body row and a column (0-based), and the raw text is the document's own.

Tables == 1..Len(root)

BodyRows(t) == 0..(Len(doc[t].grid) - 1)

Cols == 0..(NumCols - 1)

\* The cell's text as the table stage wrote it.
SourceText(t, r, c) == doc[t].grid[r + 1][c + 1]

\* The raw line of body row r: line r + 2 of the table's own block.
SourceLine(t, r) == Split(doc[t].block, NL)[r + 3]

InTree(t, id) == \E i \in 1..Len(root[t].tbody) : InRow(root[t].tbody[i], id)

\* An absent attribute reads as its default: 1, 1, middle.
Colspan(t, id) ==
    LET a == root[t].attrib[id]
    IN  IF "colspan" \in DOMAIN a THEN StrToInt(a["colspan"]) ELSE 1

Rowspan(t, id) ==
    LET a == root[t].attrib[id]
    IN  IF "rowspan" \in DOMAIN a THEN StrToInt(a["rowspan"]) ELSE 1

Alignment(t, id) ==
    LET a == root[t].attrib[id]
    IN  IF "valign" \in DOMAIN a THEN a["valign"] ELSE "middle"

IsMarker(t, r, c) == RE_row_span_marker_match(SourceText(t, r, c))

IsBlank(t, r, c) == RE_empty_cell_match(SourceText(t, r, c))

\* A is the nearest non-blank cell above (R, C).
NearestAbove(t, A, R, C) ==
    /\ A < R
    /\ ~IsBlank(t, A, C)
    /\ \A i \in (A + 1)..(R - 1) : IsBlank(t, i, C)

\* The pieces of a raw line between its separators, the leading one dropped.
Pieces(t, r) == Split(RE_remove_lead_pipe_sub(SourceLine(t, r)), "|")

EmptyMarker(p) == p = <<>> \/ p = <<"~", "~">>

\* Pieces j+1 .. j+K of row r are empty-cell markers of tree columns, piece j
\* is not, and the run ends there.
RunAfter(t, r, j, K) ==
    LET P == Pieces(t, r)
    IN  /\ j + K < NumCols
        /\ j + K + 1 <= Len(P)
        /\ ~EmptyMarker(P[j + 1])
        /\ \A i \in 1..K : EmptyMarker(P[j + i + 1])
        /\ ~(j + K + 1 < NumCols /\ j + K + 2 <= Len(P) /\ EmptyMarker(P[j + K + 2]))

\* The raw line of row r has an empty-cell marker whose last non-empty piece
\* lies beyond the row's last tree cell.
MergesBeyondEnd(t, r) ==
    LET P == Pieces(t, r)
    IN  \E i \in 1..Len(P) :
            /\ EmptyMarker(P[i])
            /\ \E j \in 1..(i - 1) :
                   /\ ~EmptyMarker(P[j])
                   /\ \A k \in (j + 1)..(i - 1) : EmptyMarker(P[k])
                   /\ j - 1 >= NumCols

InvalidMarker(t, r, c) == IsMarker(t, r, c) /\ VAlign(SourceText(t, r, c)) = "invalid"

\* No adjacent separators in any raw line, no row-span marker in any cell.
NoMergeMarkers(t) ==
    /\ \A r \in BodyRows(t) : ~RE_adjacent_bars_search(SourceLine(t, r))
    /\ \A r \in BodyRows(t), c \in Cols : ~IsMarker(t, r, c)

\* ---------------------------------------------------------------- claims

\* C1: after the pass, a non-empty cell followed in its raw line by K >= 1
\* consecutive empty-cell markers has colspan K + 1, the K cells after it are
\* gone, and the row has lost exactly K cells.
C1_ColspanOfRun ==
    pc = "done" =>
        \A t \in Tables : \A r \in BodyRows(t) : \A j \in Cols : \A K \in 1..NumCols :
            RunAfter(t, r, j, K) =>
                /\ InTree(t, <<r, j>>)
                /\ Colspan(t, <<r, j>>) = K + 1
                /\ \A i \in 1..K : ~InTree(t, <<r, j + i>>)
                /\ Len(root[t].tbody[r + 1]) = NumCols - K

\* C2: after the pass, for a row-span marker at (R, C) whose nearest non-blank
\* cell above is at row A, the cell (A, C) is in the tree with rowspan
\* R - A + 1 and the cells of rows A+1 .. R of column C are gone.
C2_RowspanOfAnchor ==
    pc = "done" =>
        \A t \in Tables : \A R \in BodyRows(t) : \A C \in Cols : \A A \in BodyRows(t) :
            (IsMarker(t, R, C) /\ NearestAbove(t, A, R, C)) =>
                /\ InTree(t, <<A, C>>)
                /\ Rowspan(t, <<A, C>>) = R - A + 1
                /\ \A i \in (A + 1)..R : ~InTree(t, <<i, C>>)

\* C3: after the pass, the anchor cell of a row-span merge carries the
\* alignment its marker asks for: top for '^', bottom for '=', else middle.
C3_AnchorAlignment ==
    pc = "done" =>
        \A t \in Tables : \A R \in BodyRows(t) : \A C \in Cols : \A A \in BodyRows(t) :
            (IsMarker(t, R, C) /\ NearestAbove(t, A, R, C)) =>
                Alignment(t, <<A, C>>) = VAlign(SourceText(t, R, C))

\* C4: a pass that reaches a marker holding both '^' and '=' fails with a
\* ValueError naming the marker's table, row and column, and with nothing else.
C4_InvalidMarkerValueError ==
    \A t \in Tables : \A r \in BodyRows(t) : \A c \in Cols :
        ( /\ pc \in {"done", "failed"}
          /\ InvalidMarker(t, r, c)
          /\ \A r2 \in BodyRows(t) : \A c2 \in Cols :
                 (InvalidMarker(t, r2, c2) /\ <<r2, c2>> # <<r, c>>)
                     => (r2 > r \/ (r2 = r /\ c2 > c)) )
        => /\ pc = "failed"
           /\ err.kind = "ValueError"
           /\ err.table = t
           /\ err.row = r + 1
           /\ err.col = c + 1

\* C5: the block the resolver takes for the i-th table of a document is the
\* block recorded for the i-th table of that same document.
C5_BlockOfSameRun ==
    pc = "detect" => rows = Split(doc[t_index].block, NL)

\* C6: a pass over a row whose raw text merges into a column beyond the row's
\* last tree cell fails with an IndexError naming that table and row.
C6_OverlongRowIndexError ==
    \A t \in Tables : \A r \in BodyRows(t) :
        ( /\ pc \in {"done", "failed"}
          /\ MergesBeyondEnd(t, r)
          /\ \A r2 \in 0..(r - 1) : ~MergesBeyondEnd(t, r2)
          /\ \A r2 \in 0..r : \A c \in Cols : ~InvalidMarker(t, r2, c) )
        => /\ pc = "failed"
           /\ err.kind = "IndexError"
           /\ err.table = t
           /\ err.row = r + 1

\* C7: for a table with no merge markers the pass changes nothing: no
\* attribute is set, no cell is removed, every text is as it was.
C7_NoMarkersNoOp ==
    pc = "done" =>
        \A t \in Tables : NoMergeMarkers(t) => root[t] = BuildTree(doc[t])

\* C7's case: a finished pass over a table of several rows, one cell blank,
\* with no merge markers.
C7_Witness ==
    /\ pc = "done"
    /\ NoMergeMarkers(1)
    /\ Len(doc[1].grid) >= 2
    /\ \E r \in BodyRows(1) : IsBlank(1, r, 1)

\* C8: after the pass, a non-blank, non-marker cell with markers in the m >= 2
\* rows directly below it has rowspan m + 1, and those marker cells are gone.
C8_StackedMarkers ==
    pc = "done" =>
        \A t \in Tables : \A C \in Cols : \A A \in BodyRows(t) : \A m \in 2..Len(doc[t].grid) :
            ( /\ A + m \in BodyRows(t)
              /\ ~IsBlank(t, A, C)
              /\ ~IsMarker(t, A, C)
              /\ \A i \in 1..m : IsMarker(t, A + i, C)
              /\ ~(A + m + 1 \in BodyRows(t) /\ IsMarker(t, A + m + 1, C)) )
            => /\ InTree(t, <<A, C>>)
               /\ Rowspan(t, <<A, C>>) = m + 1
               /\ \A i \in 1..m : ~InTree(t, <<A + i, C>>)

\* C9: after the pass, for a marker at (R, C) with only blank cells above it,
\* the cell (0, C) is in the tree with rowspan R + 1 and the cells of rows
\* 1 .. R of column C are gone.
C9_AnchorAtTop ==
    pc = "done" =>
        \A t \in Tables : \A R \in BodyRows(t) : \A C \in Cols :
            ( /\ R >= 1
              /\ IsMarker(t, R, C)
              /\ \A i \in 0..(R - 1) : IsBlank(t, i, C) )
            => /\ InTree(t, <<0, C>>)
               /\ Rowspan(t, <<0, C>>) = R + 1
               /\ \A i \in 1..R : ~InTree(t, <<i, C>>)

\* The rows of table t without the cells queued in td_remove, order kept.
RowsLessQueued(t) ==
    [r \in 1..Len(doc[t].grid) |->
        LET Kept(id) == \A k \in 1..Len(td_remove) : td_remove[k] # <<r - 1, id>>
        IN  SelectSeq(BuildTree(doc[t]).tbody[r], Kept)]

\* C10: while detection for a table is under way (or has failed) every row
\* has its cells as built, in order; once the table is finished each row is
\* what it was less the queued cells, each gone once.
C10_DeferredRemoval ==
    \A t \in Tables :
        /\ (t > t_index \/ (t = t_index /\ pc \in {"detect", "failed"}))
               => root[t].tbody = BuildTree(doc[t]).tbody
        /\ (t = t_index /\ pc \in {"tables", "done"})
               => root[t].tbody = RowsLessQueued(t)

\* C10's case: cells are queued and a row is still to be scanned.
C10_Witness ==
    /\ pc = "detect"
    /\ td_remove # <<>>
    /\ tr_index < Len(root[t_index].tbody)

=============================================================================
